---- MODULE Spec2Model ----
(***************************************************************************)
(* A model of mcp_data_visualization: the tool layer (server.py) writes    *)
(* visualization configurations into the Config Store file, the Viewer     *)
(* (streamlit_app.py) polls the file's modification time and builds the    *)
(* artifacts with the Chart Builder (plotly_plotting.py) and the Map       *)
(* Builder (geo_plotting.py).                                              *)
(*                                                                         *)
(* Python values are represented as follows.  None is the string "None"   *)
(* for scalar parameters; an Optional[List] is <<>> when it is None and    *)
(* <<l>> when it is the list l; a dict is a function whose domain is the   *)
(* set of its keys, the empty dict being <<>>.                             *)
(***************************************************************************)
EXTENDS Integers, Sequences, FiniteSets, TLC

\* ------------------------------------------------------------------ bounds
\* Largest modification stamp of the Config Store file (caps the writes).
MaxMtime == 4
\* Largest number of artifact files in FIGURE_DIR (caps the builds).
MaxFigures == 4
\* Longest location column drawn for the polygon layer builder.
MaxRows == 4
\* tool writes begun in the interleaved runs
MaxWrites == 2
\* loop runs of main in the interleaved runs
MaxBuilds == 3
\* elements of a configuration array found in the store
MaxConfigs == 3

\* ------------------------------------------------------------ Python values
None == "None"
NoList == <<>>
EmptyDict == <<>>
NoneTime == -1

Has(d, k) == k \in DOMAIN d

\* truthiness of an optional string: None and "" are falsy
Truthy(s) == s # None /\ s # ""

\* ------------------------------------------------------------------- state
VARIABLES
    file_exists,                    \* VIZ_CONFIGS_FILE.exists()
    file_content,                   \* the JSON array held by VIZ_CONFIGS_FILE
    file_mtime,                     \* VIZ_CONFIGS_FILE.stat().st_mtime
    viewer_started,                 \* open_plot_ui has launched the Viewer
    messages,                       \* st.session_state.messages
    last_plot_config_modify_time,   \* st.session_state.last_plot_config_modify_time
    figures,                        \* number of artifact files in FIGURE_DIR
    failed,                         \* modification stamps at which a rebuild raised
    written,                        \* <<config>> of the latest successful tool call, <<>> if none
    ev,                             \* the last operation: its inputs, its result
    clf_col,                        \* the location column given to the polygon layer builder
    clf_out,                        \* what the polygon layer builder did with it
    chart_in,                       \* the arguments of a create_chart_plot request
    chart_out,                      \* what the Chart Builder made of that request
    map_in,                         \* the arguments given to the Map Builder
    map_out,                        \* what the Map Builder did with them
    pc,                             \* where the running tick of main is: idle, read, record
    file_partial,                   \* the store is truncated and not yet fully written
    pending,                        \* <<config>> a tool call has still to write
    file_ver,                       \* number of the tool write the store's content is from
    built,                          \* the write numbers whose content a tick has built, in order
    seen_partial                    \* the write numbers a tick has read while partial

vars == <<file_exists, file_content, file_mtime, viewer_started, messages,
          last_plot_config_modify_time, figures, failed, written, ev, clf_col,
          clf_out, chart_in, chart_out, map_in, map_out, pc, file_partial, pending,
          file_ver, built, seen_partial>>

store == <<file_exists, file_content, file_mtime>>
viewer == <<messages, last_plot_config_modify_time, figures, failed>>
clf == <<clf_col, clf_out>>
chart == <<chart_in, chart_out>>
map == <<map_in, map_out>>
conc == <<pc, file_partial, pending, file_ver, built, seen_partial>>
aux == <<clf, chart, map, conc>>

\* A snapshot of the Config Store file.
StoreNow == [exists |-> file_exists, content |-> file_content, mtime |-> file_mtime]

\* --------------------------------------------------------------- tool layer
\* server.py 151-155 / 248-252: create the file with an empty array if absent.
EnsureConfigFile(s) ==
    IF s.exists THEN s
    ELSE [exists |-> TRUE, content |-> <<>>, mtime |-> s.mtime + 1]

\* DumpConfigs appending to the array instead of replacing it.
DumpConfigs_Append(s, config) ==
    [exists |-> TRUE, content |-> Append(s.content, config), mtime |-> s.mtime + 1]

\* open(VIZ_CONFIGS_FILE, 'w'); json.dump([config], f): the array is replaced.
DumpConfigs(s, config) ==
    [exists |-> TRUE, content |-> <<config>>, mtime |-> s.mtime + 1]

\* create_chart_plot: plot_args is locals() without kwargs and data_file_path,
\* updated with kwargs.
PlotArgs(a) ==
    [k \in (DOMAIN a \ {"data_file_path", "kwargs"}) \cup DOMAIN a.kwargs |->
        IF k \in DOMAIN a.kwargs THEN a.kwargs[k] ELSE a[k]]

ChartConfig(a) ==
    [name |-> "test_plot", plot_library |-> "plotly",
     data_source |-> a.data_file_path, configs |-> PlotArgs(a)]

ChartResult == [status |-> "success", message |-> "Plot created successfully"]

\* The plot arguments that hold an optional list, dict or bool; the others
\* hold an optional string.
WrappedKeys == {"labels", "range_x", "range_y", "log_x", "log_y", "multiple_y"}

\* json.dump of one plot argument: None becomes null, everything else the
\* JSON value of its type.
JsonValue(k, v) ==
    IF k \in WrappedKeys
    THEN IF v = <<>> THEN [json |-> "null"] ELSE [json |-> "value", v |-> v[1]]
    ELSE IF v = None THEN [json |-> "null"] ELSE [json |-> "string", v |-> v]

\* json.loads of one plot argument.
PyValue(k, j) ==
    IF j.json = "null" THEN (IF k \in WrappedKeys THEN <<>> ELSE None)
    ELSE IF k \in WrappedKeys THEN <<j.v>> ELSE j.v

\* The configuration element as written to and read back from the store.
JsonDumps(config) ==
    [config EXCEPT !.configs = [k \in DOMAIN @ |-> JsonValue(k, @[k])]]

JsonLoads(text) ==
    [text EXCEPT !.configs = [k \in DOMAIN @ |-> PyValue(k, @[k])]]

\* create_geo_viz: the validation and the GeoConfig it assembles.
GeoBase(a) ==
    [name |-> "test_geo_plot", plot_library |-> "folium",
     configs |-> [map_settings |-> [center |-> a.map_center, zoom |-> a.map_zoom,
                                    style |-> "CartoDB positron"]]]

PolygonSettings(a) ==
    ("location_column" :> a.polygon_join_col)
    @@ (IF a.polygon_value_col # None
        THEN "value_column" :> a.polygon_value_col ELSE EmptyDict)
    @@ (IF a.polygon_popup_fields # NoList
        THEN "popup_fields" :> a.polygon_popup_fields[1] ELSE EmptyDict)

PointSettings(a) ==
    ("coordinates" :> [lat |-> a.point_lat, lon |-> a.point_lon])
    @@ (IF a.point_popup_fields # NoList
        THEN "popup_fields" :> a.point_popup_fields[1] ELSE EmptyDict)

PolygonAccepted(a) == a.polygon_data_file_path # None /\ a.polygon_join_col # None
\* The polygon elif branch never taken.
PolygonRejected_Never(a) == FALSE

PolygonRejected(a) == a.polygon_data_file_path # None /\ a.polygon_join_col = None
PointAccepted(a) ==
    a.point_data_file_path # None /\ a.point_lat # None /\ a.point_lon # None
\* The point elif branch testing that both coordinates are missing.
PointRejected_Both(a) ==
    a.point_data_file_path # None /\ (a.point_lat = None /\ a.point_lon = None)

PointRejected(a) ==
    a.point_data_file_path # None /\ (a.point_lat = None \/ a.point_lon = None)

\* The polygon branch recording the data source without its settings.
WithPolygon_NoSettings(g, a) ==
    IF PolygonAccepted(a)
    THEN [k \in DOMAIN g \cup {"polygon_data_source"} |->
            IF k = "polygon_data_source" THEN a.polygon_data_file_path ELSE g[k]]
    ELSE g

WithPolygon(g, a) ==
    IF PolygonAccepted(a)
    THEN [k \in DOMAIN g \cup {"polygon_data_source"} |->
            IF k = "polygon_data_source" THEN a.polygon_data_file_path
            ELSE IF k = "configs"
                 THEN g.configs @@ ("polygon_settings" :> PolygonSettings(a))
                 ELSE g[k]]
    ELSE g

WithPoint(g, a) ==
    IF PointAccepted(a)
    THEN [k \in DOMAIN g \cup {"point_data_source"} |->
            IF k = "point_data_source" THEN a.point_data_file_path
            ELSE IF k = "configs"
                 THEN g.configs @@ ("point_settings" :> PointSettings(a))
                 ELSE g[k]]
    ELSE g

GeoConfig(a) == WithPoint(WithPolygon(GeoBase(a), a), a)

MsgNoSource == "At least one of the point or polygon data sources must be provided."
MsgNoJoinCol == "For plotting polygon data, the column used to join for polygon geomotry is missing."
MsgNoLatLon == "For plotting point data, the latitude and longitude columns are missing."

\* create_geo_viz without its first check.
GeoResult_NoSourceCheck(a) ==
    IF PolygonRejected(a)
    THEN [status |-> "error", polygon_data_file_path |-> a.polygon_data_file_path,
          message |-> MsgNoJoinCol]
    ELSE IF PointRejected(a)
    THEN [status |-> "error", message |-> MsgNoLatLon]
    ELSE [status |-> "success", message |-> "Geo plot created successfully"]

\* The value create_geo_viz returns.
GeoResult(a) ==
    IF a.polygon_data_file_path = None /\ a.point_data_file_path = None
    THEN [status |-> "error", message |-> MsgNoSource]
    ELSE IF PolygonRejected(a)
    THEN [status |-> "error", polygon_data_file_path |-> a.polygon_data_file_path,
          message |-> MsgNoJoinCol]
    ELSE IF PointRejected(a)
    THEN [status |-> "error", message |-> MsgNoLatLon]
    ELSE [status |-> "success", message |-> "Geo plot created successfully"]

\* The Config Store after create_geo_viz(a) called in store state s.
GeoStore(s, a) ==
    IF GeoResult(a).status = "success"
    THEN DumpConfigs(EnsureConfigFile(s), GeoConfig(a))
    ELSE s

\* ------------------------------------------------------------- data frames
\* A DataFrame is a function from its column names to the column's cells, a
\* cell being [kind, text]: kind "int" (text its decimal digits), "str", or
\* "nan" (a missing value).  NoFrame is load_data's None.
NoFrame == [none |-> <<>>]
IsFrame(df) == df # NoFrame

IntCell(t) == [kind |-> "int", text |-> t]
StrCell(t) == [kind |-> "str", text |-> t]
NanCell == [kind |-> "nan", text |-> ""]

\* DataFrame.astype({col: str}) on one cell.
AsStr(c) == IF c.kind = "nan" THEN "nan" ELSE c.text

\* str.upper() and str.lower() on the strings the model draws.
StrUpper(s) ==
    CASE s = "ny" -> "NY"
      [] s = "Ohio" -> "OHIO"
      [] s = "ohio" -> "OHIO"
      [] s = "xx" -> "XX"
      [] s = "nan" -> "NAN"
      [] OTHER -> s

StrLower(s) ==
    CASE s = "NY" -> "ny"
      [] s = "Ohio" -> "ohio"
      [] s = "OHIO" -> "ohio"
      [] s = "XX" -> "xx"
      [] s = "NAN" -> "nan"
      [] OTHER -> s

\* The reference tables (pycountry subdivisions of the US, the zipcodes
\* database), cut down to the entries the drawn strings can hit.
US_STATE_CODES == {"NY", "OH", "CA"}
US_STATE_NAMES_LOWER == {"ohio", "new york", "california"}
RealZips == {"10001", "90210"}
\* strings zipcodes.is_real accepts without raising ValueError
ZipFormatted == {"10001", "90210", "00000"}

\* is_valid_zipcode: zipcodes.is_real(value) if value else False, and False
\* when is_real raises ValueError.
is_valid_zipcode(value) ==
    IF value = "" THEN FALSE
    ELSE IF value \notin ZipFormatted THEN FALSE
    ELSE value \in RealZips

\* Series.mean() of a boolean series: [sum, count]; count 0 gives NaN.
RECURSIVE CountTrue(_)
CountTrue(flags) ==
    IF flags = <<>> THEN 0
    ELSE (IF Head(flags) THEN 1 ELSE 0) + CountTrue(Tail(flags))

Mean(flags) == [sum |-> CountTrue(flags), count |-> Len(flags)]

\* The threshold compared with > in place of >=.
AtLeastHalf_Strict(m) == m.count > 0 /\ 2 * m.sum > m.count

\* mean >= 0.5; a comparison with NaN is False.
AtLeastHalf(m) == m.count > 0 /\ 2 * m.sum >= m.count

is_zip(col) == [i \in 1..Len(col) |-> is_valid_zipcode(AsStr(col[i]))]
is_us_state_code(col) == [i \in 1..Len(col) |-> StrUpper(AsStr(col[i])) \in US_STATE_CODES]
is_us_state_name_lower(col) ==
    [i \in 1..Len(col) |-> StrLower(AsStr(col[i])) \in US_STATE_NAMES_LOWER]

\* The chain testing the state code before the ZIP code.
JoinStrategy_CodeFirst(col) ==
    IF AtLeastHalf(Mean(is_us_state_code(col))) THEN "state_code"
    ELSE IF AtLeastHalf(Mean(is_zip(col))) THEN "zip"
    ELSE IF AtLeastHalf(Mean(is_us_state_name_lower(col))) THEN "state_name"
    ELSE "ValueError"

\* The chain ending in the state-name join instead of the raise.
JoinStrategy_DefaultName(col) ==
    IF AtLeastHalf(Mean(is_zip(col))) THEN "zip"
    ELSE IF AtLeastHalf(Mean(is_us_state_code(col))) THEN "state_code"
    ELSE "state_name"

\* The if/elif chain of create_folium_GeoJson_for_polygons: the join chosen
\* for a location column, "ValueError" when the else branch raises.
JoinStrategy(col) ==
    IF AtLeastHalf(Mean(is_zip(col))) THEN "zip"
    ELSE IF AtLeastHalf(Mean(is_us_state_code(col))) THEN "state_code"
    ELSE IF AtLeastHalf(Mean(is_us_state_name_lower(col))) THEN "state_name"
    ELSE "ValueError"

\* The shapefile gpd.read_file loads for a join, and the key column renamed.
Shapefile(join) ==
    CASE join = "zip" -> [file |-> "tl_2024_us_zcta520.shp", key |-> "ZCTA5CE20"]
      [] join = "state_code" -> [file |-> "cb_2024_us_state_20m.shp", key |-> "STUSPS"]
      [] join = "state_name" -> [file |-> "cb_2024_us_state_20m.shp", key |-> "NAME"]
      [] OTHER -> [file |-> None, key |-> None]

\* The rest of create_folium_GeoJson_for_polygons once the join is chosen:
\* the raise of the else branch, the color map over value_col (a KeyError
\* when the frame lacks that column), the layer.
PolygonsFor(df, join, value_col) ==
    IF join = "ValueError"
    THEN [kind |-> "raise", exc |-> "ValueError", join |-> None, loaded |-> None,
          colormap |-> FALSE]
    ELSE IF Truthy(value_col) /\ ~Has(df, value_col)
    THEN [kind |-> "raise", exc |-> "KeyError", join |-> join,
          loaded |-> Shapefile(join).file, colormap |-> FALSE]
    ELSE [kind |-> "layer", exc |-> None, join |-> join,
          loaded |-> Shapefile(join).file, colormap |-> Truthy(value_col)]

\* create_folium_GeoJson_for_polygons(df, location_col, value_col, popup_fields):
\* a layer, or the exception raised.  A location column missing from the
\* frame is a KeyError (astype).
create_folium_GeoJson_for_polygons(df, location_col, value_col, popup_fields) ==
    IF ~Has(df, location_col)
    THEN [kind |-> "raise", exc |-> "KeyError", join |-> None, loaded |-> None,
          colormap |-> FALSE]
    ELSE PolygonsFor(df, JoinStrategy(df[location_col]), value_col)

\* --------------------------------------------------------------- Map Builder
NoPath == 0

Get(d, k, default) == IF Has(d, k) THEN d[k] ELSE default

\* What the Map Builder does: "none" (returns None), "artifact" (the HTML
\* file is written and its descriptor returned) or "raise".
MapReturnsNone == [kind |-> "none", exc |-> None, join |-> None]
MapRaises == [kind |-> "raise", exc |-> "TypeError", join |-> None]
MapArtifact(join) == [kind |-> "artifact", exc |-> None, join |-> join]

\* The polygon part of geo_plotting.create_geo_viz: the layer, "skip" when
\* no polygon frame is given.
PolygonLayer(polygon_df, geo_config) ==
    IF ~IsFrame(polygon_df)
    THEN [kind |-> "skip", exc |-> None, join |-> None, loaded |-> None, colormap |-> FALSE]
    ELSE LET poly_settings == Get(geo_config, "polygon_settings", EmptyDict) IN
         create_folium_GeoJson_for_polygons(
             polygon_df,
             Get(poly_settings, "location_column", None),
             Get(poly_settings, "value_column", None),
             Get(poly_settings, "popup_fields", <<>>))

\* The point part: "layer", "skip" (no frame, or no coordinates entry),
\* "none" (coordinates lack lat or lon: warning and return None) or "raise"
\* (a coordinate column missing from the frame).
PointLayer(point_df, geo_config) ==
    IF ~IsFrame(point_df) THEN "skip"
    ELSE LET point_settings == Get(geo_config, "point_settings", EmptyDict)
             coord_config == Get(point_settings, "coordinates", EmptyDict)
         IN IF coord_config = EmptyDict THEN "skip"
            ELSE IF Has(coord_config, "lat") /\ Has(coord_config, "lon")
                 THEN IF Has(point_df, coord_config["lat"]) /\ Has(point_df, coord_config["lon"])
                      THEN "layer" ELSE "raise"
                 ELSE "none"

\* The outcome of the try block given its two layers: an exception reaches
\* the except clause, whose raise(<str>) is itself a TypeError.
MapOf(poly, pt) ==
    IF poly.kind = "raise" THEN MapRaises
    ELSE IF pt = "raise" THEN MapRaises
    ELSE IF pt = "none" THEN MapReturnsNone
    ELSE MapArtifact(poly.join)

\* geo_plotting.create_geo_viz(polygon_df, point_df, geo_config).
build_map(polygon_df, point_df, geo_config) ==
    IF geo_config = EmptyDict THEN MapReturnsNone
    ELSE MapOf(PolygonLayer(polygon_df, geo_config), PointLayer(point_df, geo_config))

\* ------------------------------------------------------------- Chart Builder
SupportedKinds ==
    {"line", "bar", "scatter", "box", "violin", "histogram", "pie", "heatmap",
     "contour", "density_heatmap", "area", "funnel", "timeline", "treemap",
     "sunburst", "parallel_categories", "parallel_coordinates", "scatter_3d",
     "line_3d"}

\* pd.DataFrame(None) is the empty frame.
AsFrame(data) == IF IsFrame(data) THEN data ELSE EmptyDict

\* What the construction inside the try block comes to: a figure
\* (kind "fig": the plotly function that made it, its traces when they are
\* added one by one, its title, the layout given to update_layout, the
\* marginals and the timeline columns passed on) or an exception (kind "exc").
NoFig ==
    [kind |-> "exc", exc |-> None, msg |-> None, px |-> None, traces |-> <<>>,
     title |-> None, layout |-> EmptyDict, marginal_x |-> None, marginal_y |-> None,
     x_start |-> None, x_end |-> None]

Raise(exc, msg) == [NoFig EXCEPT !.exc = exc, !.msg = msg]

MsgTimeline == "Timeline plots require 'start_date' and 'end_date' columns"
MsgScatter3d == "3D scatter plots require a 'z' parameter"
MsgLine3d == "3D line plots require a 'z' parameter"
MsgUnsupported == "Unsupported plot type"
MsgNoColumn == "column is not in the data frame"

\* layout_params['xaxis'] / ['yaxis'] (lines 133-142): the entry exists when
\* the range is given or the log flag is truthy.
AxisParams(range, log) ==
    (IF range # NoList THEN "range" :> range[1] ELSE EmptyDict)
    @@ (IF log = <<TRUE>> THEN "type" :> "log" ELSE EmptyDict)

AxisEntry(key, axis) == IF axis # EmptyDict THEN key :> axis ELSE EmptyDict

LayoutParams(c) ==
    AxisEntry("xaxis", AxisParams(c.range_x, c.log_x))
    @@ AxisEntry("yaxis", AxisParams(c.range_y, c.log_y))

\* A plotly.express call fn(data, ..., **common_params): common_params carries
\* the title; a column named but missing from the frame is a ValueError.
Px(fn, df, cols, c) ==
    IF cols \subseteq DOMAIN df
    THEN [NoFig EXCEPT !.kind = "fig", !.px = fn, !.title = c.title]
    ELSE Raise("ValueError", MsgNoColumn)

\* px.imshow(matrix, labels=labels): no title is passed; imshow copies
\* labels, an AttributeError when labels is None.
Imshow(df, cols, c) ==
    IF ~(cols \subseteq DOMAIN df) THEN Raise("KeyError", MsgNoColumn)
    ELSE IF c.labels = NoList THEN Raise("AttributeError", "labels")
    ELSE [NoFig EXCEPT !.kind = "fig", !.px = "imshow"]

\* the columns named by x, y and color (common_params['color'])
Opt(v) == IF v # None THEN {v} ELSE {}
ReadXYColor(c) == {c.x} \cup Opt(c.y) \cup Opt(c.color)

\* The multi-series branch taking one more kind.
IsOverlay_Area(c) ==
    c.multiple_y # NoList /\ c.multiple_y[1] # <<>>
    /\ c.plot_type \in {"line", "bar", "scatter", "area"}

\* line 145: multiple_y and plot_type in ['line', 'bar', 'scatter']
IsOverlay(c) ==
    c.multiple_y # NoList /\ c.multiple_y[1] # <<>>
    /\ c.plot_type \in {"line", "bar", "scatter"}

\* lines 146-162: one trace per column of multiple_y, in list order;
\* data[x] or data[y_col] on a missing column is a KeyError.
Overlay(df, c) ==
    IF Has(df, c.x) /\ \A i \in 1..Len(c.multiple_y[1]) : Has(df, c.multiple_y[1][i])
    THEN [NoFig EXCEPT !.kind = "fig",
                       !.px = IF c.plot_type = "bar" THEN "go.Bar" ELSE "go.Scatter",
                       !.traces = c.multiple_y[1], !.title = c.title]
    ELSE Raise("KeyError", MsgNoColumn)

\* The histogram branch rebuilding the scatter for either marginal.
Histogram_AnyMarginal(df, c) ==
    IF Truthy(c.marginal_x) \/ Truthy(c.marginal_y)
    THEN IF ReadXYColor(c) \subseteq DOMAIN df
         THEN [Px("scatter", df, ReadXYColor(c), c) EXCEPT
                  !.marginal_x = c.marginal_x, !.marginal_y = c.marginal_y]
         ELSE Raise("ValueError", MsgNoColumn)
    ELSE Px("histogram", df, ReadXYColor(c), c)

\* lines 200-211: the histogram, replaced by a scatter with marginal_x when
\* marginal_x is truthy.
Histogram(df, c) ==
    IF Truthy(c.marginal_x)
    THEN IF ReadXYColor(c) \subseteq DOMAIN df
         THEN [Px("scatter", df, ReadXYColor(c), c) EXCEPT !.marginal_x = c.marginal_x]
         ELSE Raise("ValueError", MsgNoColumn)
    ELSE Px("histogram", df, ReadXYColor(c), c)

\* lines 179-192: the scatter with the marginals it is given.
Scatter(df, c) ==
    IF ReadXYColor(c) \subseteq DOMAIN df
    THEN [Px("scatter", df, ReadXYColor(c), c) EXCEPT
             !.marginal_x = IF Truthy(c.marginal_x) THEN c.marginal_x ELSE None,
             !.marginal_y = IF Truthy(c.marginal_y) THEN c.marginal_y ELSE None]
    ELSE Raise("ValueError", MsgNoColumn)

\* The timeline branch requiring only the start_date column.
Timeline_StartOnly(df, c) ==
    IF Has(df, "start_date")
    THEN IF Opt(c.y) \cup Opt(c.color) \subseteq DOMAIN df
         THEN [Px("timeline", df, Opt(c.y) \cup Opt(c.color), c)
                  EXCEPT !.x_start = "start_date", !.x_end = "end_date"]
         ELSE Raise("ValueError", MsgNoColumn)
    ELSE Raise("ValueError", MsgTimeline)

\* lines 238-243
Timeline(df, c) ==
    IF Has(df, "start_date") /\ Has(df, "end_date")
    THEN IF Opt(c.y) \cup Opt(c.color) \subseteq DOMAIN df
         THEN [Px("timeline", df, Opt(c.y) \cup Opt(c.color), c)
                  EXCEPT !.x_start = "start_date", !.x_end = "end_date"]
         ELSE Raise("ValueError", MsgNoColumn)
    ELSE Raise("ValueError", MsgTimeline)

\* lines 216-224: the pivot on (y, x, color) when y and color are given, the
\* correlation matrix of the frame's columns otherwise.
Heatmap(df, c) ==
    IF Truthy(c.y) /\ Truthy(c.color) THEN Imshow(df, {c.x, c.y, c.color}, c)
    ELSE Imshow(df, {}, c)

\* lines 288-302: z comes from the open parameter bag.
ThreeD(fn, msg, df, c) ==
    IF Has(c, "z") THEN Px(fn, df, {c.x, c["z"]} \cup Opt(c.y) \cup Opt(c.color), c)
    ELSE Raise("ValueError", msg)

\* The if/elif chain of lines 165-305.
SingleSeries(df, c) ==
    CASE c.plot_type = "line" -> Px("line", df, ReadXYColor(c), c)
      [] c.plot_type = "bar" -> Px("bar", df, ReadXYColor(c), c)
      [] c.plot_type = "scatter" -> Scatter(df, c)
      [] c.plot_type = "box" -> Px("box", df, ReadXYColor(c), c)
      [] c.plot_type = "violin" -> Px("violin", df, ReadXYColor(c), c)
      [] c.plot_type = "histogram" -> Histogram(df, c)
      [] c.plot_type = "pie" -> Px("pie", df, ReadXYColor(c), c)
      [] c.plot_type = "heatmap" -> Heatmap(df, c)
      [] c.plot_type = "contour" -> Px("density_contour", df, ReadXYColor(c), c)
      [] c.plot_type = "density_heatmap" -> Px("density_heatmap", df, ReadXYColor(c), c)
      [] c.plot_type = "area" -> Px("area", df, ReadXYColor(c), c)
      [] c.plot_type = "funnel" -> Px("funnel", df, ReadXYColor(c), c)
      [] c.plot_type = "timeline" -> Timeline(df, c)
      [] c.plot_type = "treemap" -> Px("treemap", df, ReadXYColor(c), c)
      [] c.plot_type = "sunburst" -> Px("sunburst", df, ReadXYColor(c), c)
      [] c.plot_type = "parallel_categories" ->
             Px("parallel_categories", df, ReadXYColor(c), c)
      [] c.plot_type = "parallel_coordinates" ->
             Px("parallel_coordinates", df, ReadXYColor(c), c)
      [] c.plot_type = "scatter_3d" -> ThreeD("scatter_3d", MsgScatter3d, df, c)
      [] c.plot_type = "line_3d" -> ThreeD("line_3d", MsgLine3d, df, c)
      [] OTHER -> Raise("ValueError", MsgUnsupported)

\* fig.update_layout(**layout_params) on a constructed figure.
UpdateLayout(fig, layout_params) ==
    IF fig.kind = "fig" THEN [fig EXCEPT !.layout = layout_params] ELSE fig

\* The body of the try block up to the figure (lines 101-308).
BuildFigure(data, c) ==
    IF IsOverlay(c) THEN UpdateLayout(Overlay(AsFrame(data), c), LayoutParams(c))
    ELSE UpdateLayout(SingleSeries(AsFrame(data), c), LayoutParams(c))

\* create_plotly_plot(data, **configs): TRUE when a figure is constructed and
\* saved, FALSE when an exception is caught and the error result returned.
ChartBuilds(data, c) == BuildFigure(data, c).kind = "fig"

PlotInfo(lib, path) ==
    IF lib = "plotly"
    THEN [type |-> "plot", plot_data |-> [plot_lib |-> "plotly", plot_json_file |-> path]]
    ELSE [type |-> "plot", plot_data |-> [plot_lib |-> "folium", plot_html_file |-> path]]

ErrorInfo == [type |-> "error", content |-> "Failed to create plot"]

\* The exception classes the model raises, all subclasses of Exception.
ExceptionClasses == {"ValueError", "KeyError", "AttributeError", "TypeError"}

\* An except clause that catches ValueError only.
Caught_ValueErrorOnly(exc) == exc = "ValueError"

\* except Exception (line 323)
Caught(exc) == exc \in ExceptionClasses

\* The whole call for a construction outcome fig: what it returns or raises
\* and whether save_figure_json wrote the file named path.
ChartCall(fig, path) ==
    IF fig.kind = "fig"
    THEN [outcome |-> "return", info |-> PlotInfo("plotly", path), saved |-> TRUE,
          fig |-> fig]
    ELSE IF Caught(fig.exc)
    THEN [outcome |-> "return", info |-> [type |-> "error", content |-> fig.msg],
          saved |-> FALSE, fig |-> fig]
    ELSE [outcome |-> "raise", info |-> ErrorInfo, saved |-> FALSE, fig |-> fig]

\* create_plotly_plot's return value; path is the name save_figure_json gives
\* the new file.
create_plotly_plot(data, c, path) == ChartCall(BuildFigure(data, c), path).info

\* ---------------------------------------------------------------- data files
\* The CSV files on disk, as pd.read_csv parses them; a path not listed
\* cannot be read and load_data returns None.
DataFiles ==
    ("sales.csv" :> [x |-> <<IntCell("1"), IntCell("2")>>, y |-> <<IntCell("3"), IntCell("4")>>,
                      y2 |-> <<IntCell("5"), IntCell("6")>>])
    @@ ("tasks.csv" :> [x |-> <<StrCell("a")>>, y |-> <<StrCell("b")>>,
                        start_date |-> <<StrCell("2024-01-01")>>,
                        end_date |-> <<StrCell("2024-02-01")>>])
    @@ ("starts.csv" :> [x |-> <<StrCell("a")>>, y |-> <<StrCell("b")>>,
                         start_date |-> <<StrCell("2024-01-01")>>])
    @@ ("ends.csv" :> [x |-> <<StrCell("a")>>, y |-> <<StrCell("b")>>,
                       end_date |-> <<StrCell("2024-02-01")>>])
    @@ ("zips.csv" :> [loc |-> <<IntCell("10001"), IntCell("90210")>>,
                       val |-> <<IntCell("3"), IntCell("4")>>])
    @@ ("places.csv" :> [loc |-> <<StrCell("xx"), StrCell("Ohio"), StrCell("xx")>>,
                         val |-> <<IntCell("1"), IntCell("2"), IntCell("3")>>])
    @@ ("pts.csv" :> [lat |-> <<IntCell("1")>>, lon |-> <<IntCell("2")>>])

load_data(path) == IF Has(DataFiles, path) THEN DataFiles[path] ELSE NoFrame

\* make_plot for a plotly configuration element read from the store.
ViewerChart(cfg, path) ==
    [done |-> FALSE] @@ ChartCall(BuildFigure(load_data(cfg.data_source), cfg.configs), path)

\* -------------------------------------------------------------------- Viewer
\* What make_plot hands back for a Map Builder outcome m.
MapInfo(m, path) ==
    IF m.kind = "raise" THEN [kind |-> "raise", info |-> ErrorInfo]
    ELSE IF m.kind = "none" THEN [kind |-> "none", info |-> ErrorInfo]
    ELSE [kind |-> "info", info |-> PlotInfo("folium", path)]

\* load_data on a data source named in the configuration, None when the
\* entry is missing or falsy.
LoadSource(plot_configs, key) ==
    IF Truthy(Get(plot_configs, key, None)) THEN load_data(plot_configs[key]) ELSE NoFrame

\* make_plot(plot_configs): [kind |-> "info", info |-> plot_info],
\* [kind |-> "none"] for a None return, [kind |-> "raise"] when the Map
\* Builder raises.  path names the artifact file a successful build writes.
make_plot(plot_configs, path) ==
    IF Get(plot_configs, "plot_library", None) = "plotly"
    THEN [kind |-> "info",
          info |-> create_plotly_plot(load_data(plot_configs.data_source),
                                      plot_configs.configs, path)]
    ELSE IF Get(plot_configs, "plot_library", None) = "folium"
    THEN MapInfo(build_map(LoadSource(plot_configs, "polygon_data_source"),
                           LoadSource(plot_configs, "point_data_source"),
                           plot_configs.configs), path)
    ELSE [kind |-> "none", info |-> ErrorInfo]

\* add_message(content_type, content); the title is None and the timestamp
\* is not modelled.
add_message(msgs, content_type, content) ==
    Append(msgs, [role |-> "assistant", type |-> content_type, content |-> content])

\* plot_info['plot_data']['plot_json_file'] or ['plot_html_file'].
FigFile(plot_data) ==
    IF plot_data.plot_lib = "plotly" THEN plot_data.plot_json_file
    ELSE plot_data.plot_html_file

\* One pass of the loop body of main (lines 132-140) on make_plot's outcome
\* r.  acc carries the session's messages, the loop's viz_type and fig_file,
\* the artifact files written, the number of builder invocations and whether
\* an exception left the loop (make_plot raised, or plot_info has no
\* 'plot_data' key).
LoopBody(acc, r) ==
    IF r.kind = "raise" THEN [acc EXCEPT !.builds = @ + 1, !.raised = TRUE]
    ELSE IF r.kind = "none"
    THEN [acc EXCEPT !.builds = @ + 1,
                     !.messages = add_message(@, acc.viz_type, acc.fig_file)]
    ELSE IF ~Has(r.info, "plot_data")
    THEN [acc EXCEPT !.builds = @ + 1, !.raised = TRUE]
    ELSE [acc EXCEPT !.builds = @ + 1, !.figures = @ + 1,
                     !.viz_type = r.info.plot_data.plot_lib,
                     !.fig_file = FigFile(r.info.plot_data),
                     !.messages = add_message(@, r.info.plot_data.plot_lib,
                                              FigFile(r.info.plot_data))]

\* The for loop of main (lines 130-140) from element i on.
RECURSIVE BuildLoop(_, _, _)
BuildLoop(configs, i, acc) ==
    IF i > Len(configs) \/ acc.raised THEN acc
    ELSE BuildLoop(configs, i + 1, LoopBody(acc, make_plot(configs[i], acc.figures + 1)))

\* The rebuild condition always true.
NeedsRebuild_Always(last, mtime) == TRUE

\* The condition of main's if (lines 125-126).
NeedsRebuild(last, mtime) == last = NoneTime \/ last # mtime

\* The session state after the loop: an exception is caught by main's except
\* clause, so the statement that records the modification time (line 143) is
\* not reached.
AfterLoop(acc, last, mtime) ==
    [messages |-> acc.messages,
     last |-> IF acc.raised THEN last ELSE mtime,
     figures |-> acc.figures, builds |-> acc.builds,
     raised |-> acc.raised, rebuilt |-> TRUE]

\* One run of main() without the Clear History button: the session state it
\* leaves.  stat() on a missing file raises into the except clause.
RunMain(msgs, last, figs, s) ==
    IF ~s.exists
    THEN [messages |-> msgs, last |-> last, figures |-> figs, builds |-> 0,
          raised |-> TRUE, rebuilt |-> FALSE]
    ELSE IF NeedsRebuild(last, s.mtime)
    THEN AfterLoop(BuildLoop(s.content, 1,
                       [messages |-> msgs, figures |-> figs, viz_type |-> None,
                        fig_file |-> NoPath, builds |-> 0, raised |-> FALSE]),
                   last, s.mtime)
    ELSE [messages |-> msgs, last |-> last, figures |-> figs, builds |-> 0,
          raised |-> FALSE, rebuilt |-> FALSE]

\* ------------------------------------------------------ inputs of the model
ChartCalls ==
    [data_file_path : {"sales.csv", "missing.csv"}, plot_type : {"line", "radar"},
     x : {"x"}, y : {"y"}, title : {None}, color : {None}, labels : {NoList},
     range_x : {NoList}, range_y : {NoList}, log_x : {<<>>}, log_y : {<<>>},
     trendline : {None}, marginal_x : {None}, marginal_y : {None},
     multiple_y : {NoList}, kwargs : {EmptyDict}]

\* Map Builder arguments: the frames make_plot loads (None when no source is
\* named) and geo configurations with and without each settings entry.
PolygonOptions ==
    {EmptyDict,
     "polygon_settings" :> [location_column |-> "loc", value_column |-> "val"],
     "polygon_settings" :> [location_column |-> "zip"]}

PointOptions ==
    {EmptyDict,
     "point_settings" :> EmptyDict,
     "point_settings" :> [coordinates |-> EmptyDict],
     "point_settings" :> [coordinates |-> [lat |-> "lat"]],
     "point_settings" :> [coordinates |-> [lon |-> "lon"]],
     "point_settings" :> [coordinates |-> [lat |-> "lat", lon |-> "lon"]]}

GeoConfigs ==
    {EmptyDict} \cup
    {("map_settings" :> [zoom |-> 4]) @@ p @@ q : p \in PolygonOptions, q \in PointOptions}

MapInputs ==
    [polygon_df : {NoFrame, load_data("zips.csv"), load_data("places.csv")},
     point_df : {NoFrame, load_data("pts.csv"), [lat |-> <<IntCell("1")>>]},
     geo_config : GeoConfigs]

\* Configuration elements the Viewer can find in the store: the two the
\* tools write, and elements whose build yields an error result, raises or
\* yields nothing.
ElemChart ==
    ChartConfig(CHOOSE a \in ChartCalls :
                    a.data_file_path = "sales.csv" /\ a.plot_type = "line")

ElemChartError ==
    ChartConfig(CHOOSE a \in ChartCalls :
                    a.data_file_path = "sales.csv" /\ a.plot_type = "radar")

ElemMap ==
    [name |-> "test_geo_plot", plot_library |-> "folium",
     polygon_data_source |-> "zips.csv",
     configs |-> [map_settings |-> [zoom |-> 4],
                  polygon_settings |-> [location_column |-> "loc", value_column |-> "val"]]]

ElemMapNoLon ==
    [name |-> "test_geo_plot", plot_library |-> "folium",
     point_data_source |-> "pts.csv",
     configs |-> [map_settings |-> [zoom |-> 4],
                  point_settings |-> [coordinates |-> [lat |-> "lat"]]]]

ElemMapNoConfig ==
    [name |-> "test_geo_plot", plot_library |-> "folium",
     polygon_data_source |-> "zips.csv", configs |-> EmptyDict]

ElemOtherLibrary ==
    [name |-> "test_plot", plot_library |-> "matplotlib", data_source |-> "sales.csv",
     configs |-> EmptyDict]

Elements ==
    {ElemChart, ElemChartError, ElemMap, ElemMapNoLon, ElemMapNoConfig, ElemOtherLibrary}

\* The arrays json.loads can return for the store file.
ConfigArrays == UNION {[1..n -> Elements] : n \in 0..MaxConfigs}

\* Chart requests: one family varies the title and the axis settings over
\* every kind, the other the data, the series and the kind's own parameters.
StyleInputs ==
    [data_file_path : {"sales.csv"}, plot_type : SupportedKinds \cup {"radar"},
     x : {"x"}, y : {"y"}, title : {None, "T"}, color : {None},
     labels : {NoList, <<EmptyDict>>},
     range_x : {NoList, <<<<0, 10>>>>}, range_y : {NoList, <<<<1, 5>>>>},
     log_x : {<<>>, <<TRUE>>, <<FALSE>>}, log_y : {<<>>, <<TRUE>>},
     trendline : {None}, marginal_x : {None}, marginal_y : {None},
     multiple_y : {NoList, <<<<"y", "y2">>>>}, kwargs : {[z |-> "y2"]}]

ShapeInputs ==
    [data_file_path : {"sales.csv", "tasks.csv", "starts.csv", "ends.csv", "missing.csv"},
     plot_type : SupportedKinds \cup {"radar"},
     x : {"x"}, y : {None, "y"}, title : {"T"}, color : {None, "y2"},
     labels : {<<EmptyDict>>}, range_x : {NoList}, range_y : {NoList},
     log_x : {<<>>}, log_y : {<<>>},
     trendline : {None}, marginal_x : {None, "box"}, marginal_y : {None, "box"},
     multiple_y : {NoList, <<<<>>>>, <<<<"y2", "y">>>>, <<<<"y", "nope">>>>},
     kwargs : {EmptyDict, [z |-> "y2"]}]

ChartInputs == StyleInputs \cup ShapeInputs

\* map_center in units of 1e-4 degree (the default [39.8283, -98.5795]).
GeoCalls ==
    [polygon_data_file_path : {None, "zips.csv", "places.csv"},
     point_data_file_path : {None, "pts.csv"},
     point_lat : {None, "lat"}, point_lon : {None, "lon"},
     polygon_join_col : {None, "loc"}, polygon_value_col : {None, "val"},
     point_popup_fields : {NoList}, polygon_popup_fields : {NoList},
     map_center : {<<398283, -985795>>}, map_zoom : {4}]

Cells ==
    {IntCell("10001"), IntCell("2134"), StrCell("NY"), StrCell("ny"),
     StrCell("Ohio"), StrCell("xx"), StrCell(""), NanCell}

RECURSIVE ColumnsOfLen(_)
ColumnsOfLen(n) ==
    IF n = 0 THEN {<<>>}
    ELSE {Append(c, x) : c \in ColumnsOfLen(n - 1), x \in Cells}

Columns == UNION {ColumnsOfLen(n) : n \in 0..MaxRows}

\* ------------------------------------------------------------------ actions
Before ==
    [store |-> StoreNow, messages |-> messages, last |-> last_plot_config_modify_time,
     figures |-> figures, failed |-> failed]

SetStore(s) ==
    /\ file_exists' = s.exists
    /\ file_content' = s.content
    /\ file_mtime' = s.mtime

InitSystem ==
    /\ file_exists = FALSE
    /\ file_content = <<>>
    /\ file_mtime = 0
    /\ viewer_started = FALSE
    /\ messages = <<>>
    /\ last_plot_config_modify_time = NoneTime
    /\ figures = 0
    /\ failed = {}
    /\ written = <<>>
    /\ ev = [op |-> "init"]
    /\ clf_out = [kind |-> "idle"]
    /\ chart_out = [done |-> FALSE]
    /\ map_out = [done |-> FALSE]
    /\ pc = "idle"
    /\ file_partial = FALSE
    /\ pending = <<>>
    /\ file_ver = 0
    /\ built = <<>>
    /\ seen_partial = {}

Init ==
    /\ InitSystem
    /\ clf_col = <<>>
    /\ chart_in = <<>>
    /\ map_in = <<>>

\* server.open_plot_ui
open_plot_ui ==
    /\ file_mtime < MaxMtime
    /\ SetStore(EnsureConfigFile(StoreNow))
    /\ viewer_started' = TRUE
    /\ ev' = [op |-> "open_plot_ui", before |-> Before,
              result |-> [status |-> "success", message |-> "Plot UI launched successfully"]]
    /\ UNCHANGED <<viewer, written, aux>>

\* server.create_chart_plot
create_chart_plot(a) ==
    /\ file_mtime + 2 <= MaxMtime
    /\ SetStore(DumpConfigs(EnsureConfigFile(StoreNow), ChartConfig(a)))
    /\ ev' = [op |-> "create_chart_plot", args |-> a, before |-> Before,
              result |-> ChartResult]
    /\ written' = <<ChartConfig(a)>>
    /\ UNCHANGED <<viewer_started, viewer, aux>>

\* server.create_geo_viz
create_geo_viz(a) ==
    /\ GeoResult(a).status = "success" => file_mtime + 2 <= MaxMtime
    /\ SetStore(GeoStore(StoreNow, a))
    /\ ev' = [op |-> "create_geo_viz", args |-> a, before |-> Before,
              result |-> GeoResult(a)]
    /\ written' = IF GeoResult(a).status = "success" THEN <<GeoConfig(a)>> ELSE written
    /\ UNCHANGED <<viewer_started, viewer, aux>>

\* The session state a run of main leaves.
SetSession(run) ==
    /\ messages' = run.messages
    /\ last_plot_config_modify_time' = run.last
    /\ figures' = run.figures
    /\ failed' = IF run.raised THEN failed \cup {file_mtime} ELSE failed

\* One polling tick of the Viewer (st_autorefresh reruns the script).
Tick ==
    /\ viewer_started
    /\ figures + Len(file_content) <= MaxFigures
    /\ ev' = [op |-> "tick", before |-> Before,
              run |-> RunMain(messages, last_plot_config_modify_time, figures, StoreNow)]
    /\ SetSession(ev'.run)
    /\ UNCHANGED <<store, viewer_started, written, aux>>

\* The Clear History button: clear_messages empties the history and
\* st.rerun() runs the script again.  The button is drawn by a run of main,
\* so main has run before: it recorded a modification time or raised.
ClearHistory ==
    /\ viewer_started
    /\ last_plot_config_modify_time # NoneTime \/ failed # {}
    /\ figures + Len(file_content) <= MaxFigures
    /\ ev' = [op |-> "clear", before |-> Before,
              run |-> RunMain(<<>>, last_plot_config_modify_time, figures, StoreNow)]
    /\ SetSession(ev'.run)
    /\ UNCHANGED <<store, viewer_started, written, aux>>

Next ==
    \/ open_plot_ui
    \/ \E a \in ChartCalls : create_chart_plot(a)
    \/ \E a \in GeoCalls : create_geo_viz(a)
    \/ Tick
    \/ ClearHistory

Spec == Init /\ [][Next]_vars

\* ---- the Viewer started on a store that holds a drawn configuration array.
InitHistory ==
    /\ file_exists = TRUE
    /\ file_content \in ConfigArrays
    /\ file_mtime = 1
    /\ viewer_started = TRUE
    /\ messages = <<>>
    /\ last_plot_config_modify_time = NoneTime
    /\ figures = 0
    /\ failed = {}
    /\ written = <<>>
    /\ ev = [op |-> "init"]
    /\ clf_col = <<>>
    /\ clf_out = [kind |-> "idle"]
    /\ chart_in = <<>>
    /\ chart_out = [done |-> FALSE]
    /\ map_in = <<>>
    /\ map_out = [done |-> FALSE]
    /\ pc = "idle"
    /\ file_partial = FALSE
    /\ pending = <<>>
    /\ file_ver = 0
    /\ built = <<>>
    /\ seen_partial = {}

\* A polling tick while the history is short (a rebuild that fails after
\* appending is run again on every tick).
HistoryTick ==
    /\ Len(messages) < MaxConfigs
    /\ Tick

NextHistory == HistoryTick

SpecHistory == InitHistory /\ [][NextHistory]_vars

\* ---- the tool process and the Viewer interleaved: the write of the store is
\* two steps (open(..., 'w') truncates, json.dump and close complete it) and
\* a tick of main is three (the stat of the if, the read with the loop, the
\* stat that records the modification time).

\* open(VIZ_CONFIGS_FILE, 'w') of create_chart_plot: the file is emptied.
BeginWrite(a) ==
    /\ viewer_started
    /\ ~file_partial
    /\ file_ver < MaxWrites
    /\ file_partial' = TRUE
    /\ pending' = <<ChartConfig(a)>>
    /\ file_ver' = file_ver + 1
    /\ file_content' = <<>>
    /\ file_mtime' = file_mtime + 1
    /\ ev' = [op |-> "begin_write", before |-> Before]
    /\ UNCHANGED <<file_exists, viewer_started, viewer, written, clf, chart, map,
                   pc, built, seen_partial>>

\* json.dump([config], f) and the end of the with block.
EndWrite ==
    /\ file_partial
    /\ file_partial' = FALSE
    /\ file_content' = pending
    /\ file_mtime' = file_mtime + 1
    /\ pending' = <<>>
    /\ written' = pending
    /\ ev' = [op |-> "end_write", before |-> Before]
    /\ UNCHANGED <<file_exists, viewer_started, viewer, clf, chart, map,
                   pc, file_ver, built, seen_partial>>

\* The if of main (lines 125-126) finding a modification time it has not
\* recorded.
TickStat ==
    /\ viewer_started
    /\ pc = "idle"
    /\ NeedsRebuild(last_plot_config_modify_time, file_mtime)
    /\ pc' = "read"
    /\ ev' = [op |-> "tick_stat", before |-> Before]
    /\ UNCHANGED <<store, viewer_started, viewer, written, clf, chart, map,
                   file_partial, pending, file_ver, built, seen_partial>>

\* json.loads(VIZ_CONFIGS_FILE.read_text()) and the loop (lines 130-140): a
\* partial file is not JSON, the exception goes to main's except clause.
TickLoad ==
    /\ pc = "read"
    /\ file_partial \/ Len(built) < MaxBuilds
    /\ ev' = [op |-> "tick_read", partial |-> file_partial, before |-> Before,
              acc |-> IF file_partial
                      THEN [messages |-> messages, figures |-> figures, raised |-> TRUE]
                      ELSE BuildLoop(file_content, 1,
                               [messages |-> messages, figures |-> figures,
                                viz_type |-> None, fig_file |-> NoPath, builds |-> 0,
                                raised |-> FALSE])]
    /\ messages' = ev'.acc.messages
    /\ figures' = ev'.acc.figures
    /\ built' = IF file_partial THEN built ELSE Append(built, file_ver)
    /\ seen_partial' = IF file_partial THEN seen_partial \cup {file_ver} ELSE seen_partial
    /\ pc' = IF ev'.acc.raised THEN "idle" ELSE "record"
    /\ UNCHANGED <<store, viewer_started, last_plot_config_modify_time, failed, written,
                   clf, chart, map, file_partial, pending, file_ver>>

\* st.session_state.last_plot_config_modify_time = ...stat().st_mtime (143)
TickRecord ==
    /\ pc = "record"
    /\ last_plot_config_modify_time' = file_mtime
    /\ pc' = "idle"
    /\ ev' = [op |-> "tick_record", before |-> Before]
    /\ UNCHANGED <<store, viewer_started, messages, figures, failed, written,
                   clf, chart, map, file_partial, pending, file_ver, built, seen_partial>>

NextConc ==
    \/ open_plot_ui
    \/ \E a \in ChartCalls : BeginWrite(a)
    \/ EndWrite
    \/ TickStat
    \/ TickLoad
    \/ TickRecord

SpecConc == Init /\ [][NextConc]_vars

\* The path of a chart request from the tool through the store to the Chart
\* Builder, applied to drawn requests.
InitChart ==
    /\ InitSystem
    /\ clf_col = <<>>
    /\ chart_in \in ChartInputs
    /\ map_in = <<>>

BuildChart ==
    /\ ~chart_out.done
    /\ chart_out' = [ViewerChart(JsonLoads(JsonDumps(ChartConfig(chart_in))), 1)
                        EXCEPT !.done = TRUE]
    /\ UNCHANGED <<store, viewer_started, viewer, written, ev, clf, chart_in, map, conc>>

NextChart == BuildChart

SpecChart == InitChart /\ [][NextChart]_vars

\* The Map Builder applied to drawn frames and geo configurations.
InitMap ==
    /\ InitSystem
    /\ clf_col = <<>>
    /\ chart_in = <<>>
    /\ map_in \in MapInputs

BuildMap ==
    /\ ~map_out.done
    /\ map_out' = [done |-> TRUE]
                   @@ build_map(map_in.polygon_df, map_in.point_df, map_in.geo_config)
    /\ UNCHANGED <<store, viewer_started, viewer, written, ev, clf, chart, map_in, conc>>

NextMap == BuildMap

SpecMap == InitMap /\ [][NextMap]_vars

\* The polygon layer builder applied to drawn location columns.
InitClassify ==
    /\ InitSystem
    /\ clf_col \in Columns
    /\ chart_in = <<>>
    /\ map_in = <<>>

Classify ==
    /\ clf_out.kind = "idle"
    /\ clf_out' = create_folium_GeoJson_for_polygons([loc |-> clf_col], "loc", None, <<>>)
    /\ UNCHANGED <<store, viewer_started, viewer, written, ev, clf_col, chart, map, conc>>

NextClassify == Classify

SpecClassify == InitClassify /\ [][NextClassify]_vars


\* ============================================================== properties
IsGeoCall == ev.op = "create_geo_viz"
StoreUntouched == StoreNow = ev.before.store

\* C1: a create_geo_viz call with neither polygon_data_file_path nor
\* point_data_file_path returns status "error" and leaves the Config Store
\* file as it was (not created, not rewritten).
C1_NoSourceIsError ==
    (IsGeoCall /\ ev.args.polygon_data_file_path = None
               /\ ev.args.point_data_file_path = None)
        => (ev.result.status = "error" /\ StoreUntouched)

C1_Witness ==
    /\ IsGeoCall
    /\ ev.args.polygon_data_file_path = None
    /\ ev.args.point_data_file_path = None
    /\ ev.args.point_lat # None /\ ev.args.point_lon # None
    /\ ev.args.polygon_join_col # None
    /\ file_exists /\ file_content # <<>>

\* C2: a create_geo_viz call with a polygon path but no polygon_join_col
\* returns status "error" with the message about the missing join column and
\* leaves the Config Store unchanged, whatever the point source is.
C2_NoJoinColIsError ==
    (IsGeoCall /\ ev.args.polygon_data_file_path # None
               /\ ev.args.polygon_join_col = None)
        => (ev.result.status = "error" /\ ev.result.message = MsgNoJoinCol
            /\ StoreUntouched)

C2_Witness ==
    /\ IsGeoCall
    /\ ev.args.polygon_data_file_path # None
    /\ ev.args.polygon_join_col = None
    /\ PointAccepted(ev.args)
    /\ file_exists /\ file_content # <<>>

\* C3: a create_geo_viz call with a point path and point_lat or point_lon
\* (or both) absent returns status "error" and leaves the Config Store
\* unchanged, also when a valid polygon source came with it.
C3_NoLatLonIsError ==
    (IsGeoCall /\ ev.args.point_data_file_path # None
               /\ (ev.args.point_lat = None \/ ev.args.point_lon = None))
        => (ev.result.status = "error" /\ StoreUntouched)

C3_Witness ==
    /\ IsGeoCall
    /\ ev.args.point_data_file_path # None
    /\ ev.args.point_lat # None /\ ev.args.point_lon = None
    /\ PolygonAccepted(ev.args)
    /\ file_exists /\ file_content # <<>>

\* C4: once a tool call has succeeded, the Config Store holds an array of
\* exactly one element, the configuration of the latest successful call.
C4_SingleLatestConfig ==
    written # <<>> => (file_exists /\ Len(file_content) = 1 /\ file_content = written)

C4_Witness ==
    /\ ev.op \in {"create_chart_plot", "create_geo_viz"}
    /\ ev.result.status = "success"
    /\ ev.before.store.content # <<>>
    /\ ev.before.store.content # file_content

\* C5: every GeoConfig in the Config Store has polygon_settings or
\* point_settings; it has polygon_settings, with a location_column, exactly
\* when it has a polygon_data_source, and point_settings, with lat and lon
\* coordinates, exactly when it has a point_data_source.
GeoConfigWellFormed(g) ==
    /\ Has(g.configs, "polygon_settings") \/ Has(g.configs, "point_settings")
    /\ Has(g.configs, "polygon_settings") <=> Has(g, "polygon_data_source")
    /\ Has(g.configs, "point_settings") <=> Has(g, "point_data_source")
    /\ Has(g.configs, "polygon_settings") =>
           /\ Has(g.configs.polygon_settings, "location_column")
           /\ g.configs.polygon_settings.location_column # None
    /\ Has(g.configs, "point_settings") =>
           /\ Has(g.configs.point_settings, "coordinates")
           /\ g.configs.point_settings.coordinates.lat # None
           /\ g.configs.point_settings.coordinates.lon # None

C5_GeoConfigHasSettings ==
    \A i \in 1..Len(file_content) :
        file_content[i].plot_library = "folium" => GeoConfigWellFormed(file_content[i])

C5_Witness ==
    /\ IsGeoCall
    /\ ev.result.status = "success"
    /\ Len(file_content) = 1
    /\ Has(file_content[1], "polygon_data_source")
    /\ ~Has(file_content[1], "point_data_source")
    /\ ev.args.point_lat # None

\* C6: a polling tick that finds the modification time equal to the
\* last-seen one invokes no builder and leaves the message history, the
\* last-seen time and the artifact files as they were.
C6_UnchangedTickIsIdle ==
    (ev.op = "tick" /\ ev.before.last = ev.before.store.mtime)
        => /\ ev.run.builds = 0
           /\ messages = ev.before.messages
           /\ last_plot_config_modify_time = ev.before.last
           /\ figures = ev.before.figures

C6_Witness ==
    /\ ev.op = "tick"
    /\ ev.before.last = ev.before.store.mtime
    /\ ev.before.messages # <<>>

\* C7: after a build failed during a polling tick, the Viewer does not build
\* the same configuration again while the Config Store is not modified.
C7_NoRetry ==
    (ev.op = "tick" /\ ev.run.builds > 0)
        => ev.before.store.mtime \notin ev.before.failed

\* ---- the polygon layer builder on drawn columns (SpecClassify)
NumZip == Cardinality({i \in 1..Len(clf_col) : is_valid_zipcode(AsStr(clf_col[i]))})
NumCode ==
    Cardinality({i \in 1..Len(clf_col) : StrUpper(AsStr(clf_col[i])) \in US_STATE_CODES})
NumName ==
    Cardinality({i \in 1..Len(clf_col) : StrLower(AsStr(clf_col[i])) \in US_STATE_NAMES_LOWER})

ZipQualifies == Len(clf_col) > 0 /\ 2 * NumZip >= Len(clf_col)
CodeQualifies == Len(clf_col) > 0 /\ 2 * NumCode >= Len(clf_col)
NameQualifies == Len(clf_col) > 0 /\ 2 * NumName >= Len(clf_col)
Classified == clf_out.kind # "idle"

\* C8: a column with at least half of its values valid ZIP codes (exactly
\* half included) gets the ZIP-boundary join; the same inclusive threshold
\* holds for the state-code and the state-name check.
C8_InclusiveThreshold ==
    Classified =>
        /\ ZipQualifies =>
              (clf_out.kind = "layer" /\ clf_out.join = "zip"
               /\ clf_out.loaded = "tl_2024_us_zcta520.shp")
        /\ (CodeQualifies /\ ~ZipQualifies) =>
              (clf_out.kind = "layer" /\ clf_out.join = "state_code"
               /\ clf_out.loaded = "cb_2024_us_state_20m.shp")
        /\ (NameQualifies /\ ~ZipQualifies /\ ~CodeQualifies) =>
              (clf_out.kind = "layer" /\ clf_out.join = "state_name"
               /\ clf_out.loaded = "cb_2024_us_state_20m.shp")

C8_Witness ==
    /\ Classified
    /\ Len(clf_col) = 4
    /\ NumZip = 2 /\ NumCode = 0 /\ NumName = 0
    /\ clf_out.join = "zip"

\* C9: the join chosen is the one of the highest-priority classification
\* (ZIP, then state code, then state name) that reaches the threshold; a
\* lower one is chosen only when every higher one is below it.
C9_PriorityOrder ==
    Classified =>
        /\ clf_out.join = "zip" <=> ZipQualifies
        /\ clf_out.join = "state_code" <=> (CodeQualifies /\ ~ZipQualifies)
        /\ clf_out.join = "state_name" <=>
               (NameQualifies /\ ~ZipQualifies /\ ~CodeQualifies)

C9_Witness ==
    /\ Classified
    /\ ZipQualifies /\ CodeQualifies
    /\ clf_out.join = "zip"

\* C10: a column in which no classification reaches the threshold, a column
\* with no rows included, makes the builder raise ValueError; no reference
\* geometry is loaded and no layer is produced.
C10_NoneQualifiesRaises ==
    (Classified /\ ~ZipQualifies /\ ~CodeQualifies /\ ~NameQualifies)
        => /\ clf_out.kind = "raise"
           /\ clf_out.exc = "ValueError"
           /\ clf_out.loaded = None
           /\ clf_out.join = None

C10_Witness ==
    /\ Classified
    /\ clf_out.kind = "raise"
    /\ NumZip = 1 /\ NumCode = 1 /\ NumName = 1
    /\ Len(clf_col) = 4



\* -------------------------------------------------- Chart Builder properties
ChartFrame == AsFrame(load_data(chart_in.data_file_path))
ChartIsError == chart_out.info.type = "error" /\ ~chart_out.saved
Is3dWithoutZ == chart_in.plot_type \in {"scatter_3d", "line_3d"} /\ ~Has(chart_in.kwargs, "z")

\* C11: create_plotly_plot never propagates an exception raised during
\* construction: it returns either the plot descriptor tagged "plotly" with
\* the path of the saved figure, or an error result with nothing saved; an
\* unsupported kind and a 3D kind without z give the error result.
C11_NeverPropagates ==
    chart_out.done =>
        /\ chart_out.outcome = "return"
        /\ \/ chart_out.info = PlotInfo("plotly", 1) /\ chart_out.saved
           \/ ChartIsError /\ chart_out.info.content = chart_out.fig.msg
        /\ chart_in.plot_type \notin SupportedKinds => ChartIsError
        /\ Is3dWithoutZ => ChartIsError

C11_Witness ==
    /\ chart_out.done
    /\ Is3dWithoutZ
    /\ chart_out.outcome = "return"
    /\ chart_out.info.type = "error"

\* C12: a timeline request on data lacking start_date or end_date returns the
\* error naming both columns and saves nothing; with both columns present a
\* timeline that is built is drawn from start_date to end_date.
C12_TimelineNeedsBothDates ==
    chart_out.done /\ chart_in.plot_type = "timeline" =>
        IF Has(ChartFrame, "start_date") /\ Has(ChartFrame, "end_date")
        THEN chart_out.fig.kind = "fig" =>
                /\ chart_out.fig.px = "timeline"
                /\ chart_out.fig.x_start = "start_date"
                /\ chart_out.fig.x_end = "end_date"
        ELSE ChartIsError /\ chart_out.info.content = MsgTimeline

C12_Witness ==
    /\ chart_out.done
    /\ chart_in.plot_type = "timeline"
    /\ chart_in.data_file_path = "starts.csv"
    /\ chart_out.info.type = "error"
    /\ chart_out.info.content = MsgTimeline

C12_WitnessBuilt ==
    /\ chart_out.done
    /\ chart_in.plot_type = "timeline"
    /\ chart_in.data_file_path = "tasks.csv"
    /\ chart_out.fig.kind = "fig"

\* The range and the log flag a built figure has on one axis.
AxisRange(fig, key) ==
    IF Has(fig.layout, key) /\ Has(fig.layout[key], "range")
    THEN <<fig.layout[key]["range"]>> ELSE NoList

AxisIsLog(fig, key) ==
    Has(fig.layout, key) /\ Has(fig.layout[key], "type") /\ fig.layout[key]["type"] = "log"

\* C15: for every request that yields a chart, the chart's title, x and y
\* ranges and x and y log scales are the ones supplied to create_chart_plot.
C15_RoundTrip ==
    chart_out.done /\ chart_out.fig.kind = "fig" =>
        /\ chart_out.fig.title = chart_in.title
        /\ AxisRange(chart_out.fig, "xaxis") = chart_in.range_x
        /\ AxisRange(chart_out.fig, "yaxis") = chart_in.range_y
        /\ AxisIsLog(chart_out.fig, "xaxis") <=> chart_in.log_x = <<TRUE>>
        /\ AxisIsLog(chart_out.fig, "yaxis") <=> chart_in.log_y = <<TRUE>>

\* C16: a non-empty multiple_y on a line, bar or scatter request gives one
\* trace per listed column in list order; on every other kind the result is
\* the one the same request gives without multiple_y.
C16_MultipleY ==
    chart_out.done =>
        IF /\ chart_in.plot_type \in {"line", "bar", "scatter"}
           /\ chart_in.multiple_y # NoList
           /\ chart_in.multiple_y[1] # <<>>
        THEN /\ chart_out.fig.kind = "fig" =>
                  /\ chart_out.fig.traces = chart_in.multiple_y[1]
                  /\ chart_out.fig.px \in {"go.Scatter", "go.Bar"}
             /\ {chart_in.multiple_y[1][i] : i \in 1..Len(chart_in.multiple_y[1])}
                    \cup {chart_in.x} \subseteq DOMAIN ChartFrame
                  => chart_out.fig.kind = "fig"
        ELSE chart_out.fig =
                 BuildFigure(load_data(chart_in.data_file_path),
                             [PlotArgs(chart_in) EXCEPT !.multiple_y = NoList])

C16_Witness ==
    /\ chart_out.done
    /\ chart_in.plot_type = "bar"
    /\ chart_in.multiple_y = <<<<"y2", "y">>>>
    /\ chart_out.fig.kind = "fig"
    /\ chart_out.fig.traces = <<"y2", "y">>

C16_WitnessIgnored ==
    /\ chart_out.done
    /\ chart_in.plot_type = "area"
    /\ chart_in.multiple_y = <<<<"y2", "y">>>>
    /\ chart_out.fig.kind = "fig"
    /\ chart_out.fig.traces = <<>>

\* C17: a histogram request with a marginal overlay (marginal_x or
\* marginal_y) is rebuilt as a scatter carrying the requested marginal;
\* without one the histogram is kept.
C17_HistogramMarginal ==
    chart_out.done /\ chart_in.plot_type = "histogram" /\ chart_out.fig.kind = "fig" =>
        IF Truthy(chart_in.marginal_x) \/ Truthy(chart_in.marginal_y)
        THEN /\ chart_out.fig.px = "scatter"
             /\ chart_out.fig.marginal_x = chart_in.marginal_x
             /\ chart_out.fig.marginal_y = chart_in.marginal_y
        ELSE chart_out.fig.px = "histogram"

\* ---------------------------------------------------- Map Builder properties
MapPointSettings == Get(map_in.geo_config, "point_settings", EmptyDict)
MapCoordinates == Get(MapPointSettings, "coordinates", EmptyDict)
MapPolygonSettings == Get(map_in.geo_config, "polygon_settings", EmptyDict)

\* C13: the Map Builder fails whenever neither polygon data nor point data is
\* given: no map artifact is returned and no HTML file written.
C13_NoDataNoMap ==
    map_out.done /\ ~IsFrame(map_in.polygon_df) /\ ~IsFrame(map_in.point_df) =>
        map_out.kind # "artifact"

\* C14: with point data given, point settings without a coordinates entry, or
\* whose coordinates lack lat or lon, make the build fail: no map artifact.
C14_PointsNeedLatLon ==
    /\ map_out.done
    /\ IsFrame(map_in.point_df)
    /\ ~(Has(MapCoordinates, "lat") /\ Has(MapCoordinates, "lon"))
    => map_out.kind # "artifact"

\* C18: a classification error in the polygon layer reaches the Map
\* Builder's caller as a raised ValueError.
C18_ClassificationErrorIsValueError ==
    /\ map_out.done
    /\ map_in.geo_config # EmptyDict
    /\ IsFrame(map_in.polygon_df)
    /\ Has(map_in.polygon_df, Get(MapPolygonSettings, "location_column", None))
    /\ JoinStrategy(map_in.polygon_df[MapPolygonSettings.location_column]) = "ValueError"
    => map_out.kind = "raise" /\ map_out.exc = "ValueError"

\* ---------------------------------------------------- interleaving properties
\* How many ticks have built the content of tool write v.
TimesBuilt(v) == Cardinality({i \in 1..Len(built) : built[i] = v})

\* No tick is running, no write is in progress and the recorded modification
\* time is the file's: no later tick will rebuild without a further write.
Settled ==
    /\ viewer_started
    /\ pc = "idle"
    /\ ~file_partial
    /\ last_plot_config_modify_time = file_mtime

\* C19: no update is lost between the tool process and the Viewer: once the
\* Viewer has recorded the modification time of a written configuration, a
\* tick has built that configuration, also when the write landed between a
\* tick's read and its recording of the modification time.
C19_NoLostUpdate ==
    Settled /\ file_content # <<>> => TimesBuilt(file_ver) >= 1

\* C20: a tick that reads the store while it is truncated or partly written
\* leaves the messages and the recorded modification time unchanged, and the
\* configuration of that write, once complete, is built by a later tick
\* exactly once.
C20_PartialReadThenBuiltOnce ==
    /\ ev.op = "tick_read" /\ ev.partial =>
           /\ messages = ev.before.messages
           /\ last_plot_config_modify_time = ev.before.last
    /\ \A v \in seen_partial :
           /\ TimesBuilt(v) <= 1
           /\ Settled /\ file_ver = v => TimesBuilt(v) = 1

\* -------------------------------------------------------- history properties
\* The entry an element's build r stands for, none when it yields no artifact.
OwnEntry(element, r) ==
    IF r.kind = "info" /\ Has(r.info, "plot_data")
    THEN <<[role |-> "assistant", type |-> element.plot_library,
            content |-> FigFile(r.info.plot_data)]>>
    ELSE <<>>

\* The loop stops at an element whose build raises or returns an error result.
StopsLoop(r) == r.kind = "raise" \/ (r.kind = "info" /\ ~Has(r.info, "plot_data"))

\* The entries a rebuild of configs from element i on should append: one per
\* element that yields an artifact, of that element's library and path.
RECURSIVE OwnEntries(_, _, _)
OwnEntriesFrom(configs, i, figs, r) ==
    IF StopsLoop(r) THEN <<>>
    ELSE OwnEntry(configs[i], r) \o OwnEntries(configs, i + 1, figs + Len(OwnEntry(configs[i], r)))

OwnEntries(configs, i, figs) ==
    IF i > Len(configs) THEN <<>>
    ELSE OwnEntriesFrom(configs, i, figs, make_plot(configs[i], figs + 1))

\* C21: every entry a rebuild appends to the history refers to the artifact
\* built from its own configuration element; an element whose build yields no
\* artifact appends nothing (no entry with an empty type and path, no repeat
\* of an earlier element's artifact).
C21_EntriesOfOwnElement ==
    ev.op = "tick" /\ ev.run.rebuilt =>
        messages = ev.before.messages
                   \o OwnEntries(ev.before.store.content, 1, ev.before.figures)

\* C22: Clear History empties the message history and changes nothing else:
\* the recorded modification time, the artifact files and the store are as
\* before, so the history is empty when the operation is over.
C22_ClearOnlyEmptiesHistory ==
    ev.op = "clear" =>
        /\ messages = <<>>
        /\ last_plot_config_modify_time = ev.before.last
        /\ figures = ev.before.figures
        /\ StoreNow = ev.before.store

====
